---- MODULE Spec2Model ----
(***************************************************************************)
(* A model of ais_exporter (src/src/ais_exporter/exporter.py): the two     *)
(* feed loops updater_stats / updater_ships, the start() / stop()          *)
(* lifecycle, the ships processor and the compass lookup.                  *)
(*                                                                         *)
(* Time is a discrete clock in seconds.  Every action is one run of code   *)
(* between two suspension points of the asyncio event loop.                *)
(***************************************************************************)
EXTENDS Integers, Sequences, FiniteSets, TLC

\* ------------------------------------------------------------- bounds
\* last instant of the clock
MaxTime == 2
\* number of tasks asyncio.ensure_future ever creates (start() creates two)
MaxTasks == 4
\* longest ships payload handed to process_ships in SpecShips
MaxRecords == 2
\* largest angle handed to relative_direction, in half degrees
MaxAngle2 == 800

\* ---------------------------------------------------------- constants
\* _fetch(resource, timeout=2.0): the default the loops fetch with
DefaultTimeout == 2
\* __init__(..., fetch_timeout: float = 2.0, ...)
InitFetchTimeout == 2

VARIABLES
    legacy_cancel,   \* build: asyncio.CancelledError derives from Exception (Python 3.6, 3.7)
    resource,        \* "http" or "file": what resources.base starts with
    ships_interval,  \* self.ships_interval, seconds
    stats_interval,  \* self.stats_interval, seconds
    fetch_timeout,   \* self.fetch_timeout, seconds
    svr,             \* self.svr: "stopped" or "running"
    svr_warned,      \* svr.stop() has logged "already stopped" since the last svr.start()
    stats_task,      \* self.stats_task: 0 (None) or an index of tasks
    ships_task,      \* self.ships_task: 0 (None) or an index of tasks
    tasks,           \* every task asyncio.ensure_future has created, in order
    metrics,         \* self.metrics
    clock,           \* datetime.datetime.now(), seconds
    last_tick,       \* the feed and the outcome of the latest pass of a loop
    stop_pc,         \* where the caller's stop() coroutine is suspended
    last_op,         \* how the caller's last start() / stop() call ended
    call             \* the last direct call of a pure function (SpecShips, SpecGeom)

vars == <<legacy_cancel, resource, ships_interval, stats_interval, fetch_timeout,
          svr, svr_warned, stats_task, ships_task, tasks, metrics, clock, last_tick, stop_pc,
          last_op, call>>

config == <<legacy_cancel, resource, ships_interval, stats_interval, fetch_timeout>>

None == 0

\* ------------------------------------------------------------ geometry
direction_lut == <<"N", "NE", "NE", "E", "E", "SE", "SE", "S",
                   "S", "SW", "SW", "W", "W", "NW", "NW", "N">>

\* int(x / 22.5) for x = angle2 / 2: int() truncates toward zero
TruncDiv45(angle2) == IF angle2 >= 0 THEN angle2 \div 45 ELSE 0 - ((0 - angle2) \div 45)

\* mutant: the index wraps around the table
TupleIndex_wrapped(t, i) == [raised |-> "none", value |-> t[(i % Len(t)) + 1]]

\* tuple[i] in Python: a negative index counts from the end, anything outside
\* -len .. len-1 raises IndexError
TupleIndex(t, i) ==
    IF i >= 0 /\ i < Len(t) THEN [raised |-> "none", value |-> t[i + 1]]
    ELSE IF i < 0 /\ i >= 0 - Len(t) THEN [raised |-> "none", value |-> t[Len(t) + i + 1]]
    ELSE [raised |-> "IndexError", value |-> ""]

\* relative_direction(angle), the angle given in half degrees
relative_direction(angle2) == TupleIndex(direction_lut, TruncDiv45(angle2))

\* ------------------------------------------------------------- metrics
\* metrics.Specs: (internal_name, exported_label, help_text) triples, the "ships"
\* group a tuple and the "stats" groups a dict of tuples
Specs ==
    [ships |-> << <<"lat", "latitude", "Latitude">>,
                  <<"lon", "longitude", "Longitude">> >>,
     stats |-> [messages |-> << <<"accepted", "messages_accepted", "Accepted messages">> >>,
                local    |-> << <<"signal", "signal", "Signal">>,
                                <<"peak_signal", "peak_signal", "Peak signal">> >>]]

\* create_gauge_metric: a Gauge holds one value per label set, none at first
create_gauge_metric == <<>>

\* initialise_metrics: a gauge for each spec of the ships group; the statistics
\* loop is commented out, so metrics has no "stats" key
initialise_metrics ==
    [ships |-> [name \in {Specs.ships[i][1] : i \in 1..Len(Specs.ships)} |->
                   create_gauge_metric]]

\* mutant: set() replaces the series of the gauge by the one it sets
GaugeSet_alone(g, labels, value) == [l \in {labels} |-> value]

\* Gauge.set(labels, value)
GaugeSet(g, labels, value) ==
    [l \in DOMAIN g \cup {labels} |-> IF l = labels THEN value ELSE g[l]]

\* ------------------------------------------------------ ships processor
\* a[i] on a Python list (0-based): in range or IndexError
InRange(a, i) == i + 1 <= Len(a)
Item(a, i) == a[i + 1]

\* mutant: name and country read from each other's index
ship_data_swapped(a) ==
    [mmsi |-> Item(a, 0), name |-> Item(a, 22), country |-> Item(a, 31)]

\* the dict literal of process_ships
ship_data(a) == [mmsi |-> Item(a, 0), name |-> Item(a, 31), country |-> Item(a, 22)]

\* one pass of the for loop body; the dict literal is built before either set()
ship_record(d, a) ==
    IF ~(InRange(a, 0) /\ InRange(a, 31) /\ InRange(a, 22))
    THEN [d |-> d, raised |-> "IndexError"]
    ELSE LET d1 == [d EXCEPT !["lat"] = GaugeSet(@, ship_data(a), Item(a, 1))]
             d2 == [d1 EXCEPT !["lon"] = GaugeSet(@, ship_data(a), Item(a, 2))]
         IN [d |-> d2, raised |-> "none"]

\* for a in ships["values"]: the first record that raises ends the loop
RECURSIVE ships_loop(_, _, _)
ships_loop(d, values, i) ==
    IF i > Len(values) THEN [d |-> d, raised |-> "none"]
    ELSE LET r == ship_record(d, values[i])
         IN IF r.raised # "none" THEN r ELSE ships_loop(r.d, values, i + 1)

\* process_ships(ships): the metrics afterwards, the exception that left it,
\* the warnings it logged (it logs none)
process_ships(m, ships) ==
    IF "values" \notin DOMAIN ships
    THEN [metrics |-> m, raised |-> "KeyError", warnings |-> 0]
    ELSE LET r == ships_loop(m.ships, ships.values, 1)
         IN [metrics |-> [m EXCEPT !.ships = r.d], raised |-> r.raised, warnings |-> 0]

\* process_stats(stats, time_periods): the body is commented out
process_stats(m, stats) == [metrics |-> m, raised |-> "none", warnings |-> 0]

\* --------------------------------------------------------- input data
\* a record of the upstream wire format: 32 positional fields
MkRecord(mmsi, lat, lon, country, name) ==
    [i \in 1..32 |-> CASE i = 1 -> mmsi
                       [] i = 2 -> lat
                       [] i = 3 -> lon
                       [] i = 23 -> country
                       [] i = 32 -> name
                       [] OTHER -> 0]

Mmsis == {1, 2}
\* (latitude, longitude) pairs
Positions == {<<10, 20>>, <<11, 21>>}
Countries == {"PL"}
Names == {"ANNA"}

ValidRecords ==
    {MkRecord(i, pos[1], pos[2], c, n) : i \in Mmsis, pos \in Positions,
                                          c \in Countries, n \in Names}

\* records too short for index 31 (and the shortest for index 22 as well)
Truncate(a, n) == [i \in 1..n |-> a[i]]
MalformedRecords == {Truncate(MkRecord(1, 10, 20, "PL", "ANNA"), n) : n \in {3, 23}}

Records == ValidRecords \cup MalformedRecords
IsValid(a) == Len(a) >= 32

SeqsUpTo(S, n) == UNION {[1..k -> S] : k \in 0..n}

\* decoded JSON payloads of the ships resource
ShipsPayloads ==
    {[values |-> v] : v \in SeqsUpTo(Records, MaxRecords)} \cup {[error |-> "no data"]}

\* configured polling intervals, seconds (the defaults are 10 and 60)
ShipsIntervals == {1}
StatsIntervals == {2}
\* how long a blocking read of a local file takes, seconds
ReadTimes == {0, 1}

\* what the feed loops of Spec are served: at most one record, of ship 1
FeedPayloads ==
    {p \in ShipsPayloads :
        "values" \in DOMAIN p =>
            /\ Len(p.values) <= 1
            /\ \A i \in 1..Len(p.values) :
                  /\ p.values[i][1] = 1
                  /\ Len(p.values[i]) >= 23}
StatsPayload == [last1min |-> "stats"]
NoPayload == [none |-> "none"]

\* the payloads a fetch of a feed that ends this way can return
Served(feed, kind) ==
    IF kind # "ok" THEN {NoPayload}
    ELSE IF feed = "stats" THEN {StatsPayload} ELSE FeedPayloads

\* ------------------------------------------------------------- fetcher
\* how a fetch ends: by resource kind
HttpKinds == {"ok", "status", "client_error", "bad_json", "timeout"}
FileKinds == {"ok", "no_file", "bad_json"}

\* _fetch: the exception a fetch that ends this way leaves with
fetch_exception(kind) ==
    CASE kind = "ok" -> "none"
      [] kind = "status" -> "Exception"
      [] kind = "timeout" -> "Exception"
      [] kind = "client_error" -> "Exception"
      [] kind = "bad_json" -> "JSONDecodeError"
      [] kind = "no_file" -> "FileNotFoundError"

\* ---------------------------------------------------------- feed loops
\* mutant: the handler catches only what _fetch itself raises
caught_by_loop_narrow(exc, legacy) == exc = "Exception"

\* except Exception: every exception class here derives from Exception, and
\* asyncio.CancelledError does only before Python 3.8
caught_by_loop(exc, legacy) ==
    IF exc = "CancelledError" THEN legacy ELSE TRUE

\* mutant: a failed fetch is processed as an empty result, gauges rebuilt
try_tick_reset(feed, m, kind, payload) ==
    IF fetch_exception(kind) # "none"
    THEN [metrics |-> initialise_metrics, raised |-> fetch_exception(kind),
          result |-> "fetch_failed"]
    ELSE LET r == IF feed = "stats" THEN process_stats(m, payload)
                  ELSE process_ships(m, payload)
         IN [metrics |-> r.metrics, raised |-> r.raised,
             result |-> IF r.raised = "none" THEN "ok" ELSE "process_failed"]

\* the try block of a loop: fetch, and process only what a fetch returned
try_tick(feed, m, kind, payload) ==
    LET exc == fetch_exception(kind) IN
    IF exc # "none"
    THEN [metrics |-> m, raised |-> exc, result |-> "fetch_failed"]
    ELSE LET r == IF feed = "stats" THEN process_stats(m, payload)
                  ELSE process_ships(m, payload)
         IN [metrics |-> r.metrics, raised |-> r.raised,
             result |-> IF r.raised = "none" THEN "ok" ELSE "process_failed"]

\* wait_seconds = (start + interval - end).total_seconds()
wait_seconds(start, interval, end) == start + interval - end

\* asyncio.sleep(delay): a delay <= 0 yields once and returns
sleep_wake(now, delay) == IF delay <= 0 THEN now ELSE now + delay

interval_of(feed) == IF feed = "stats" THEN stats_interval ELSE ships_interval

NewTask(feed) ==
    [feed |-> feed, pc |-> "new", start |-> 0, wake |-> 0, timeout |-> 0,
     cancel_req |-> FALSE, exc |-> "none"]

\* a finished task: its coroutine frame is gone
Finished(task, exc) ==
    [task EXCEPT !.pc = "done", !.start = 0, !.wake = 0, !.timeout = 0,
                 !.cancel_req = FALSE, !.exc = exc]

\* the rest of a pass of the loop after the try block was left with `raised`:
\* an exception the handler does not catch ends the task, else the loop sleeps
\* (end = now(), then asyncio.sleep(wait_seconds))
after_try(task, raised, now) ==
    IF raised # "none" /\ ~caught_by_loop(raised, legacy_cancel)
    THEN Finished(task, raised)
    ELSE [task EXCEPT !.pc = "sleep", !.cancel_req = FALSE, !.start = 0,
                      !.timeout = 0,
                      !.wake = sleep_wake(now, wait_seconds(task.start,
                                                            interval_of(task.feed), now))]

Runnable(t) ==
    /\ ~tasks[t].cancel_req
    /\ \/ tasks[t].pc = "new"
       \/ tasks[t].pc = "sleep" /\ tasks[t].wake <= clock

\* await _fetch(self.resources.stats) / await _fetch(self.resources.ships):
\* the loops pass the resource alone, so the timeout parameter of _fetch
\* takes its default whatever self.fetch_timeout holds
timeout_of_call(configured) == DefaultTimeout

\* start of a pass over an http resource: start = now(), then the task is
\* suspended in _fetch, in a GET under ClientTimeout(total=timeout)
TickBegin(t) ==
    /\ resource = "http"
    /\ Runnable(t)
    /\ tasks' = [tasks EXCEPT ![t].pc = "fetch", ![t].start = clock, ![t].wake = 0,
                              ![t].timeout = timeout_of_call(fetch_timeout)]
    /\ UNCHANGED <<config, svr, svr_warned, stats_task, ships_task, metrics, clock,
                   last_tick, stop_pc, last_op, call>>

\* the fetch of an http resource ends: at the timeout with a timeout, before
\* it in any other way
FetchDone(t, kind, payload) ==
    /\ tasks[t].pc = "fetch"
    /\ ~tasks[t].cancel_req
    /\ kind \in HttpKinds
    /\ (kind = "timeout") = (clock >= tasks[t].start + tasks[t].timeout)
    /\ LET r == try_tick(tasks[t].feed, metrics, kind, payload) IN
         /\ metrics' = r.metrics
         /\ last_tick' = [feed |-> tasks[t].feed, result |-> r.result]
         /\ tasks' = [tasks EXCEPT ![t] = after_try(@, r.raised, clock)]
    /\ UNCHANGED <<config, svr, svr_warned, stats_task, ships_task, clock,
                   stop_pc, last_op, call>>

\* a whole pass over a local file: open() and read() block the event loop
\* for d seconds, so the pass has no suspension point before its sleep
TickFile(t, d, kind, payload) ==
    /\ resource = "file"
    /\ Runnable(t)
    /\ kind \in FileKinds
    /\ d \in ReadTimes
    /\ clock + d <= MaxTime
    /\ clock' = clock + d
    /\ LET r == try_tick(tasks[t].feed, metrics, kind, payload) IN
         /\ metrics' = r.metrics
         /\ last_tick' = [feed |-> tasks[t].feed, result |-> r.result]
         /\ tasks' = [tasks EXCEPT ![t] =
                         after_try([@ EXCEPT !.start = clock], r.raised, clock + d)]
    /\ UNCHANGED <<config, svr, svr_warned, stats_task, ships_task,
                   stop_pc, last_op, call>>

\* Task.cancel() took effect: CancelledError is thrown into the coroutine where
\* it is suspended.  In _fetch that is inside the try block of the loop.
CancelDeliver(t) ==
    /\ tasks[t].cancel_req
    /\ tasks[t].pc # "done"
    /\ tasks' = [tasks EXCEPT ![t] =
                    IF @.pc = "fetch"
                    THEN after_try(@, "CancelledError", clock)
                    ELSE Finished(@, "CancelledError")]
    /\ last_tick' = IF tasks[t].pc = "fetch"
                    THEN [feed |-> tasks[t].feed, result |-> "cancelled"]
                    ELSE last_tick
    /\ UNCHANGED <<config, svr, svr_warned, stats_task, ships_task, metrics, clock,
                   stop_pc, last_op, call>>

\* ----------------------------------------------------------- lifecycle
\* Task.cancel(): a request the event loop delivers at the task's next step;
\* nothing on a task that is done
cancel(ts, t) == IF ts[t].pc = "done" THEN ts ELSE [ts EXCEPT ![t].cancel_req = TRUE]

\* start(): await svr.start(), which raises when it cannot bind, then one new
\* task per feed, stored over whatever the handles held
Start(bound) ==
    /\ stop_pc = "idle"
    /\ IF bound
       THEN /\ Len(tasks) + 2 <= MaxTasks
            /\ svr' = "running"
            /\ svr_warned' = FALSE
            /\ tasks' = tasks \o <<NewTask("stats"), NewTask("ships")>>
            /\ stats_task' = Len(tasks) + 1
            /\ ships_task' = Len(tasks) + 2
            /\ last_op' = "start"
       ELSE /\ last_op' = "start_raised"
            /\ UNCHANGED <<svr, svr_warned, tasks, stats_task, ships_task>>
    /\ UNCHANGED <<config, metrics, clock, last_tick, stop_pc, call>>

\* mutant: the handle is left as it was
HandleAfterAwait_kept(h) == h

\* self.stats_task = None / self.ships_task = None, after the await
HandleAfterAwait(h) == None

\* await self.svr.stop(): the end of stop(); on a server that is stopped it
\* logs a warning and does nothing
SvrStop ==
    /\ svr' = "stopped"
    /\ svr_warned' = (svr_warned \/ svr = "stopped")
    /\ stop_pc' = "idle"
    /\ last_op' = "stop"

\* mutant: the ships task is cancelled and not awaited
StopShips_unawaited ==
    /\ tasks' = IF ships_task # None THEN cancel(tasks, ships_task) ELSE tasks
    /\ SvrStop
    /\ UNCHANGED ships_task

\* if self.ships_task: cancel it and await it; else on to svr.stop()
StopShips ==
    IF ships_task # None
    THEN /\ tasks' = cancel(tasks, ships_task)
         /\ stop_pc' = "await_ships"
         /\ UNCHANGED <<svr, svr_warned, ships_task, last_op>>
    ELSE /\ SvrStop
         /\ UNCHANGED <<tasks, ships_task>>

\* stop(), up to its first suspension point
StopCall ==
    /\ stop_pc = "idle"
    /\ IF stats_task # None
       THEN /\ tasks' = cancel(tasks, stats_task)
            /\ stop_pc' = "await_stats"
            /\ UNCHANGED <<svr, svr_warned, stats_task, ships_task, last_op>>
       ELSE /\ StopShips
            /\ UNCHANGED stats_task
    /\ UNCHANGED <<config, metrics, clock, last_tick, call>>

\* await self.stats_task returns: CancelledError is passed over, anything
\* else leaves stop()
StopStatsDone ==
    /\ stop_pc = "await_stats"
    /\ tasks[stats_task].pc = "done"
    /\ IF tasks[stats_task].exc = "CancelledError"
       THEN /\ stats_task' = HandleAfterAwait(stats_task)
            /\ StopShips
       ELSE /\ stop_pc' = "idle"
            /\ last_op' = "stop_raised"
            /\ UNCHANGED <<svr, svr_warned, stats_task, ships_task, tasks>>
    /\ UNCHANGED <<config, metrics, clock, last_tick, call>>

\* await self.ships_task returns
StopShipsDone ==
    /\ stop_pc = "await_ships"
    /\ tasks[ships_task].pc = "done"
    /\ IF tasks[ships_task].exc = "CancelledError"
       THEN /\ ships_task' = HandleAfterAwait(ships_task)
            /\ SvrStop
            /\ UNCHANGED tasks
       ELSE /\ stop_pc' = "idle"
            /\ last_op' = "stop_raised"
            /\ UNCHANGED <<svr, svr_warned, ships_task, tasks>>
    /\ UNCHANGED <<config, stats_task, metrics, clock, last_tick, call>>

\* ----------------------------------------------------------------- time
\* something the event loop runs now: time does not pass before it has run
Pending ==
    \/ \E t \in DOMAIN tasks :
          \/ tasks[t].pc # "done" /\ tasks[t].cancel_req
          \/ Runnable(t)
          \/ tasks[t].pc = "fetch" /\ clock >= tasks[t].start + tasks[t].timeout
    \/ stop_pc = "await_stats" /\ tasks[stats_task].pc = "done"
    \/ stop_pc = "await_ships" /\ tasks[ships_task].pc = "done"

Advance ==
    /\ clock < MaxTime
    /\ ~Pending
    /\ clock' = clock + 1
    /\ UNCHANGED <<config, svr, svr_warned, stats_task, ships_task, tasks, metrics,
                   last_tick, stop_pc, last_op, call>>

\* ---------------------------------------------------------------- specs
NoCall == [fn |-> "none"]
NoTick == [feed |-> "none", result |-> "none"]

\* the exporter after __init__, for any supported build and any resource
Constructed ==
    /\ legacy_cancel \in BOOLEAN
    /\ resource \in {"http", "file"}
    /\ ships_interval \in ShipsIntervals
    /\ stats_interval \in StatsIntervals
    /\ svr = "stopped"
    /\ svr_warned = FALSE
    /\ stats_task = None
    /\ ships_task = None
    /\ tasks = <<>>
    /\ metrics = initialise_metrics
    /\ clock = 0
    /\ last_tick = NoTick
    /\ stop_pc = "idle"
    /\ last_op = "none"
    /\ call = NoCall

\* the exporter as main() constructs it: main() passes no fetch_timeout, so
\* the parameter of __init__ takes its default
Init ==
    /\ Constructed
    /\ fetch_timeout = InitFetchTimeout

Next ==
    \/ \E bound \in BOOLEAN : Start(bound)
    \/ StopCall
    \/ StopStatsDone
    \/ StopShipsDone
    \/ \E t \in DOMAIN tasks : TickBegin(t)
    \/ \E t \in DOMAIN tasks, kind \in HttpKinds :
          \E payload \in Served(tasks[t].feed, kind) : FetchDone(t, kind, payload)
    \/ \E t \in DOMAIN tasks, d \in ReadTimes, kind \in FileKinds :
          \E payload \in Served(tasks[t].feed, kind) : TickFile(t, d, kind, payload)
    \/ \E t \in DOMAIN tasks : CancelDeliver(t)
    \/ Advance

Spec == Init /\ [][Next]_vars

\* ------------------------------------- any fetch_timeout, http resources
\* seconds a caller of __init__ passes as fetch_timeout
FetchTimeouts == {1, 2, 3}

\* the exporter a caller constructs on an http base with any fetch_timeout
InitFetch ==
    /\ Constructed
    /\ fetch_timeout \in FetchTimeouts
    /\ legacy_cancel = FALSE
    /\ resource = "http"

\* what an exporter on an http base does: every step but a pass over a file
NextFetch ==
    \/ \E bound \in BOOLEAN : Start(bound)
    \/ StopCall
    \/ StopStatsDone
    \/ StopShipsDone
    \/ \E t \in DOMAIN tasks : TickBegin(t)
    \/ \E t \in DOMAIN tasks, kind \in HttpKinds :
          \E payload \in Served(tasks[t].feed, kind) : FetchDone(t, kind, payload)
    \/ \E t \in DOMAIN tasks : CancelDeliver(t)
    \/ Advance

SpecFetch == InitFetch /\ [][NextFetch]_vars

\* ------------------------------------------ direct calls of the processor
\* process_ships called with any payload, on the gauges earlier calls left
CallProcessShips ==
    /\ \E p \in ShipsPayloads :
          LET r == process_ships(metrics, p) IN
            /\ metrics' = r.metrics
            /\ call' = [fn |-> "process_ships", arg |-> p, raised |-> r.raised,
                        warnings |-> r.warnings]
    /\ UNCHANGED <<config, svr, svr_warned, stats_task, ships_task, tasks, clock,
                   last_tick, stop_pc, last_op>>

InitCalls ==
    /\ Init
    /\ legacy_cancel = FALSE
    /\ resource = "http"

NextShips == CallProcessShips

SpecShips == InitCalls /\ [][NextShips]_vars

\* ------------------------------------------- direct calls of the geometry
Angles2 == (0 - MaxAngle2)..MaxAngle2

CallRelativeDirection ==
    /\ \E a \in Angles2 :
          LET r == relative_direction(a) IN
            call' = [fn |-> "relative_direction", arg |-> a, raised |-> r.raised,
                     value |-> r.value]
    /\ UNCHANGED <<config, svr, svr_warned, stats_task, ships_task, tasks, metrics,
                   clock, last_tick, stop_pc, last_op>>

NextGeom == CallRelativeDirection

SpecGeom == InitCalls /\ [][NextGeom]_vars

\* ================================================================ claims

\* a pass of task t's loop has just reached its sleep
PassEnded(t) ==
    /\ tasks'[t].pc = "sleep"
    /\ \/ tasks[t].pc \in {"new", "fetch"}
       \/ tasks[t].pc = "sleep" /\ tasks'[t].wake # tasks[t].wake

\* a pass of task t's loop has just begun
PassBegun(t) ==
    \/ tasks[t].pc \in {"new", "sleep"} /\ tasks'[t].pc = "fetch"
    \/ tasks[t].pc = "new" /\ tasks'[t].pc = "sleep"
    \/ tasks[t].pc = "sleep" /\ tasks'[t].pc = "sleep" /\ tasks'[t].wake # tasks[t].wake

\* the tasks of the latest start() that launched any
LastLaunched == {t \in DOMAIN tasks : t > Len(tasks) - 2}

\* C1: stop() never raises, and whenever a stop() call has returned both task
\* handles are None and the server is stopped -- on a running exporter, on a
\* stopped one and on one that was never started
C1_StopIdempotent ==
    /\ last_op # "stop_raised"
    /\ last_op = "stop" =>
          /\ stats_task = None
          /\ ships_task = None
          /\ svr = "stopped"
          /\ stop_pc = "idle"

\* a stop() that found the server already stopped has returned, after an
\* earlier stop() had cancelled loops that start() launched
C1_Witness ==
    /\ last_op = "stop"
    /\ svr_warned
    /\ Len(tasks) >= 2
    /\ \A t \in DOMAIN tasks : tasks[t].pc = "done"

\* C2: a pass whose fetch failed leaves every gauge as it was
C2_FailedFetchKeepsGauges ==
    [][\A t \in DOMAIN tasks :
          (PassEnded(t) /\ last_tick'.result = "fetch_failed") => metrics' = metrics]_vars

\* the ships fetch failed after a gauge had been set
C2_Witness ==
    /\ last_tick = [feed |-> "ships", result |-> "fetch_failed"]
    /\ metrics.ships["lat"] # <<>>

\* C3: no error of a pass ends a loop: a task is done only by cancellation, a
\* task that is not cancelled leaves its fetch for its sleep whatever the fetch
\* and the processor did, and once its sleep is over it can begin the next pass
C3_Survives ==
    \A t \in DOMAIN tasks :
       /\ tasks[t].pc = "done" => tasks[t].exc = "CancelledError"
       /\ (tasks[t].pc = "sleep" /\ ~tasks[t].cancel_req /\ tasks[t].wake <= clock) =>
             ENABLED (\/ TickBegin(t)
                      \/ \E kind \in FileKinds :
                            \E payload \in Served(tasks[t].feed, kind) :
                               TickFile(t, 0, kind, payload))

C3_LoopContinues ==
    /\ []C3_Survives
    /\ [][\A t \in DOMAIN tasks :
             (tasks[t].pc = "fetch" /\ ~tasks[t].cancel_req /\ tasks'[t] # tasks[t]) =>
                 \/ tasks'[t].pc = "sleep"
                 \/ tasks'[t] = [tasks[t] EXCEPT !.cancel_req = TRUE]]_vars

\* the only ships loop has begun another pass after one whose processor raised
C3_Witness ==
    /\ Len(tasks) = 2
    /\ last_tick = [feed |-> "ships", result |-> "process_failed"]
    /\ tasks[2].pc = "fetch"

\* the label set the claims expect of a record: fields 0, 31 and 22
LabelsOf(a) == [mmsi |-> a[1], name |-> a[32], country |-> a[23]]

\* record i is the last record of the payload with its label set
LastOfLabels(v, i) ==
    \A j \in (i + 1)..Len(v) : IsValid(v[j]) => LabelsOf(v[j]) # LabelsOf(v[i])

\* gauge g holds value x under the labels of record a
Holds(g, a, x) == LabelsOf(a) \in DOMAIN g /\ g[LabelsOf(a)] = x

IsShipsCall(c) == c.fn = "process_ships" /\ "values" \in DOMAIN c.arg

\* C4: on a payload with one malformed record among valid ones process_ships
\* does not raise, logs exactly one warning and applies every valid record,
\* those after the malformed one included
C4_MalformedSkipped ==
    (/\ IsShipsCall(call)
     /\ Cardinality({i \in 1..Len(call.arg.values) : ~IsValid(call.arg.values[i])}) = 1
     /\ \E i \in 1..Len(call.arg.values) : IsValid(call.arg.values[i])) =>
        /\ call.raised = "none"
        /\ call.warnings = 1
        /\ \A i \in 1..Len(call.arg.values) :
              (IsValid(call.arg.values[i]) /\ LastOfLabels(call.arg.values, i)) =>
                  /\ Holds(metrics.ships["lat"], call.arg.values[i], call.arg.values[i][2])
                  /\ Holds(metrics.ships["lon"], call.arg.values[i], call.arg.values[i][3])

C6_AllSpecsExposed ==
    (/\ svr = "running"
     /\ stats_task # None /\ tasks[stats_task].pc = "sleep"
     /\ ships_task # None /\ tasks[ships_task].pc = "sleep"
     /\ last_tick = [feed |-> "stats", result |-> "ok"]
     /\ metrics.ships["lat"] # <<>>) =>
        /\ \A i \in 1..Len(Specs.ships) :
              /\ Specs.ships[i][1] \in DOMAIN metrics.ships
              /\ metrics.ships[Specs.ships[i][1]] # <<>>
        /\ "stats" \in DOMAIN metrics
        /\ \A g \in DOMAIN Specs.stats : \A i \in 1..Len(Specs.stats[g]) :
              /\ g \in DOMAIN metrics.stats
              /\ Specs.stats[g][i][1] \in DOMAIN metrics.stats[g]
              /\ metrics.stats[g][Specs.stats[g][i][1]] # <<>>

\* C7: relative_direction of an angle of 360 degrees or more raises and
\* returns no direction
C7_InvalidAngle ==
    (call.fn = "relative_direction" /\ call.arg >= 720) =>
        /\ call.raised = "IndexError"
        /\ call.value \notin {direction_lut[i] : i \in 1..Len(direction_lut)}

\* relative_direction was called with exactly 360 degrees and raised
C7_Witness ==
    /\ call.fn = "relative_direction"
    /\ call.arg = 720
    /\ call.raised = "IndexError"

\* C8: a task that stop() has cancelled terminates at its next step, wherever
\* it is suspended: the loop's handler does not take the cancellation
C8_CancelTerminates ==
    [][\A t \in DOMAIN tasks :
          (tasks[t].cancel_req /\ tasks'[t] # tasks[t]) => tasks'[t].pc = "done"]_vars

\* C9: whenever the server is stopped, the loops the latest start() launched
\* are done
C9_ServerStoppedLast ==
    svr = "stopped" => \A t \in LastLaunched : tasks[t].pc = "done"

\* stop() has stopped the server of an exporter whose loops had run passes
C9_Witness ==
    /\ svr = "stopped"
    /\ last_op = "stop"
    /\ ~svr_warned
    /\ Len(tasks) >= 2
    /\ last_tick.feed = "ships"

\* C10: a pass that ended within the interval is followed by a pass that begins
\* exactly one interval after it began, a pass that overran by a pass that
\* begins at once, and that is when the sleep of the loop is set to end
C10_FixedRate ==
    [][\A t \in DOMAIN tasks :
          /\ (tasks[t].pc = "sleep" /\ PassBegun(t)) => clock = tasks[t].wake
          /\ (tasks[t].pc = "fetch" /\ PassEnded(t)) =>
                tasks'[t].wake =
                   IF clock - tasks[t].start <= interval_of(tasks[t].feed)
                   THEN tasks[t].start + interval_of(tasks[t].feed)
                   ELSE clock]_vars

\* C11: every GET a feed loop has in flight runs under the fetch timeout the
\* exporter was constructed with, and so is over no later than that many
\* seconds after the pass began
C11_ConfiguredTimeout ==
    \A t \in DOMAIN tasks :
       tasks[t].pc = "fetch" =>
          /\ tasks[t].timeout = fetch_timeout
          /\ clock <= tasks[t].start + fetch_timeout

\* C12: the feeds do not hold each other up: no step in which a loop of one
\* feed runs a pass carries the clock past the instant at which a sleeping
\* loop of the other feed is due, so that loop begins its pass on time
C12_FeedsIndependent ==
    [][\A t \in DOMAIN tasks, u \in DOMAIN tasks :
          (/\ tasks[t].feed # tasks[u].feed
           /\ PassBegun(t)
           /\ tasks[u].pc = "sleep"
           /\ ~tasks[u].cancel_req) => clock' <= tasks[u].wake \/ clock' = clock]_vars

\* C13: when a stop() call has returned, every task that any start() before
\* it launched is done -- the tasks of a start() that was followed by another
\* start() with no stop() between them included
C13_NoLoopOutlivesStop ==
    last_op = "stop" => \A t \in DOMAIN tasks : tasks[t].pc = "done"

\* the label sets of the ships a payload holds
Named(p) ==
    IF "values" \notin DOMAIN p THEN {}
    ELSE {LabelsOf(p.values[i]) : i \in {j \in 1..Len(p.values) : IsValid(p.values[j])}}

\* C14: whatever the payload, process_ships removes no series: every label
\* set a gauge held before the call it holds after it, and a label set of no
\* ship of the payload keeps the latitude and the longitude it had
C14_SeriesNeverRemoved ==
    [][call'.fn = "process_ships" =>
          \A n \in {"lat", "lon"} :
             \A l \in DOMAIN metrics.ships[n] :
                /\ l \in DOMAIN metrics'.ships[n]
                /\ l \notin Named(call'.arg) => metrics'.ships[n][l] = metrics.ships[n][l]]_vars

\* a payload that holds one ship was processed, and a ship set by an earlier
\* call and absent from this payload is still exposed
C14_Witness ==
    /\ IsShipsCall(call)
    /\ call.raised = "none"
    /\ Cardinality(Named(call.arg)) = 1
    /\ \E l \in DOMAIN metrics.ships["lat"] :
          /\ l \notin Named(call.arg)
          /\ l \in DOMAIN metrics.ships["lon"]

====
